---- MODULE Spec2Model ----
(***************************************************************************)
(* Model of the equity analyzer (src/Analizer/dailyEquityAnalyzer.py and   *)
(* src/Analizer/equityAnalizer.py): the CSV loader, the daily statistics   *)
(* calculation and the batch loop over the files of a directory.           *)
(*                                                                         *)
(* Time is modelled in whole hours: the log's MM:SS part never changes a   *)
(* UTC offset.  A timestamp text is the record [y, mo, d, h] of the digits *)
(* written in the file; a parsed, zone-aware timestamp is the record       *)
(* [instant, utcoffset] with instant in hours since 2024-01-01 00:00 UTC.  *)
(* A CSV cell is [num, v]: num says whether the text is a number.          *)
(***************************************************************************)
EXTENDS Integers, Sequences, FiniteSets, TLC

VARIABLES
    dir,            \* the directory: file name -> the file's lines
    csv_files,      \* process_all_csv_files: sorted(csv_files)
    i,              \* position of the for loop in csv_files (1-based)
    daily_results,  \* process_all_csv_files: the list being accumulated
    printed,        \* everything print() has written, in order
    calls,          \* the calls made to the Loader and the Calculator, in order
    pc,             \* control state of the operation under way
    raised,         \* the exception that left the operation, <<>> when none
    lines,          \* single-file runs: the lines of the file handed to the Loader
    df,             \* the Loader's latest result
    stats,          \* the Calculator's latest result
    ret,            \* what process_all_csv_files returned
    display_results,\* plot_daily_max_floating_balances: its own, date-sorted list
    analysis        \* plot_combined_equity_analysis: the values it derives

vars == <<dir, csv_files, i, daily_results, printed, calls, pc, raised, lines, df, stats, ret,
          display_results, analysis>>

-----------------------------------------------------------------------------
(* Bounds of the model *)

MaxFiles == 3

MaxLines == 2

MaxSamples == 3

-----------------------------------------------------------------------------
(* Calendar arithmetic (datetime / pandas timestamps), in days and hours    *)
(* relative to 2024-01-01 00:00, a Monday.                                   *)

IsLeap(y) == (y % 4 = 0 /\ y % 100 # 0) \/ y % 400 = 0

DaysInYear(y) == IF IsLeap(y) THEN 366 ELSE 365

DaysInMonth(y, m) ==
    IF m = 2 THEN (IF IsLeap(y) THEN 29 ELSE 28)
    ELSE IF m \in {4, 6, 9, 11} THEN 30 ELSE 31

RECURSIVE DaysBeforeYear(_)
DaysBeforeYear(y) ==
    IF y = 2024 THEN 0
    ELSE IF y > 2024 THEN DaysBeforeYear(y - 1) + DaysInYear(y - 1)
    ELSE DaysBeforeYear(y + 1) - DaysInYear(y)

RECURSIVE DaysBeforeMonth(_, _)
DaysBeforeMonth(y, m) ==
    IF m = 1 THEN 0 ELSE DaysBeforeMonth(y, m - 1) + DaysInMonth(y, m - 1)

DaysFromCivil(y, m, d) == DaysBeforeYear(y) + DaysBeforeMonth(y, m) + d - 1

HoursFromCivil(c) == 24 * DaysFromCivil(c.y, c.mo, c.d) + c.h

\* 0 = Monday ... 6 = Sunday
Weekday(days) == days % 7

YearOfDays(days) ==
    CHOOSE y \in 2022..2026 : DaysBeforeYear(y) <= days /\ days < DaysBeforeYear(y + 1)

CivilFromHours(n) ==
    LET days == n \div 24
        y    == YearOfDays(days)
        doy  == days - DaysBeforeYear(y)
        m    == CHOOSE mm \in 1..12 :
                    /\ DaysBeforeMonth(y, mm) <= doy
                    /\ doy < DaysBeforeMonth(y, mm) + DaysInMonth(y, mm)
    IN  [y |-> y, mo |-> m, d |-> doy - DaysBeforeMonth(y, m) + 1, h |-> n % 24]

\* The day of month of the k-th Sunday of month m of year y.
NthSunday(y, m, k) ==
    CHOOSE d \in (7 * (k - 1) + 1)..(7 * k) : Weekday(DaysFromCivil(y, m, d)) = 6

-----------------------------------------------------------------------------
(* pytz: UTC and US/Eastern *)

EST_OFFSET == -5

EDT_OFFSET == -4

\* Daylight time starts on the second Sunday of March at 02:00 EST.
DstStartUTC(y) == HoursFromCivil([y |-> y, mo |-> 3, d |-> NthSunday(y, 3, 2), h |-> 2]) - EST_OFFSET

\* Daylight time ends on the first Sunday of November at 02:00 EDT.
DstEndUTC(y) == HoursFromCivil([y |-> y, mo |-> 11, d |-> NthSunday(y, 11, 1), h |-> 2]) - EDT_OFFSET

\* The zone's table of transitions (UTC instants), by year
EasternTransitions == [y \in 2023..2025 |-> [start |-> DstStartUTC(y), end |-> DstEndUTC(y)]]

\* The first hour of each year of the table
YearStartHours == [y \in 2023..2026 |-> 24 * DaysBeforeYear(y)]

\* eastern.utcoffset at a UTC instant
EasternOffset(instant) ==
    LET y == CHOOSE yy \in 2023..2025 :
                 YearStartHours[yy] <= instant /\ instant < YearStartHours[yy + 1]
    IN  IF EasternTransitions[y].start <= instant /\ instant < EasternTransitions[y].end
        THEN EDT_OFFSET ELSE EST_OFFSET

\* Series.dt.tz_localize(utc): the naive wall clock is taken to be UTC.
tz_localize_utc(naive) == [instant |-> naive, utcoffset |-> 0]

\* tz_localize(eastern), the already-local reading of the same wall clock
\* (away from the two transition hours: the offset is the one in force at
\* that Eastern wall clock).
tz_localize_eastern(naive) ==
    LET off == IF EasternOffset(naive - EST_OFFSET) = EST_OFFSET THEN EST_OFFSET ELSE EDT_OFFSET
    IN  [instant |-> naive - off, utcoffset |-> off]

\* Series.dt.tz_convert(eastern): same instant, Eastern offset at that instant.
tz_convert_eastern(t) == [instant |-> t.instant, utcoffset |-> EasternOffset(t.instant)]

\* The wall clock a zone-aware timestamp shows, in hours and as a civil time.
WallHours(t) == t.instant + t.utcoffset

WallClock(t) == CivilFromHours(WallHours(t))

-----------------------------------------------------------------------------
(* The Loader *)

\* pd.to_datetime(format='%Y.%m.%d %H:%M:%S') accepts the text
ParsesAsTimestamp(ts) ==
    /\ ts.y >= 1
    /\ ts.mo \in 1..12
    /\ ts.d >= 1 /\ ts.d <= DaysInMonth(ts.y, ts.mo)
    /\ ts.h \in 0..23

\* pd.to_datetime on one accepted text: the naive wall clock, in hours
to_datetime(ts) == HoursFromCivil(ts)

\* The conversion of the Timestamp column, lines 22-27.
ConvertTimestampNoShift(ts) == tz_localize_eastern(to_datetime(ts))

ConvertTimestamp(ts) == tz_convert_eastern(tz_localize_utc(to_datetime(ts)))

\* A missing cell (NaN) is the empty sequence, a present one <<value>>.
NaN == << >>

\* pd.read_csv(sep=';', header=None): the first line fixes the number of
\* columns; a later line with more fields is a ParserError, one with fewer is
\* padded with NaN; a file without lines is an EmptyDataError.
read_csv(ls) ==
    IF Len(ls) = 0 THEN [exc |-> "EmptyDataError", width |-> 0, table |-> << >>]
    ELSE LET width == Len(ls[1])
         IN  IF \E k \in 2..Len(ls) : Len(ls[k]) > width
             THEN [exc |-> "ParserError", width |-> width, table |-> << >>]
             ELSE [exc |-> "", width |-> width,
                   table |-> [k \in 1..Len(ls) |->
                                [c \in 1..width |->
                                    IF c <= Len(ls[k]) THEN <<ls[k][c]>> ELSE NaN]]]

\* A column read by read_csv is float64 when every present cell is a number,
\* and object (strings) otherwise.
IsObjectColumn(table, c) ==
    \E k \in 1..Len(table) : table[k][c] # NaN /\ ~table[k][c][1].num

\* The value of a cell.  Equity and Balance cells are always present: the
\* lines of the model have at least three fields.  A cell of an object
\* column keeps the placeholder of its text; nothing computes with it.
CellValue(cell) == cell[1].v

OptionalCellValue(cell) == IF cell = NaN THEN NaN ELSE <<cell[1].v>>

NoDF == [rows |-> << >>, object_cols |-> {}]

\* load_data of equityAnalizer.py, and the body of load_csv_data's try block:
\* the data frame, or the exception that leaves it.
load_data(ls) ==
    LET r == read_csv(ls)
    IN  IF r.exc # "" THEN [status |-> "raised", exc |-> r.exc, df |-> NoDF]
        ELSE IF r.width # 4
        THEN [status |-> "raised", exc |-> "ValueError: Length mismatch", df |-> NoDF]
        ELSE IF \E k \in 1..Len(r.table) : ~ParsesAsTimestamp(r.table[k][1][1])
        THEN [status |-> "raised", exc |-> "ValueError: time data", df |-> NoDF]
        ELSE [status |-> "df", exc |-> "",
              df |-> [rows |-> [k \in 1..Len(r.table) |->
                                  [Timestamp |-> ConvertTimestamp(r.table[k][1][1]),
                                   Equity    |-> CellValue(r.table[k][2]),
                                   Balance   |-> CellValue(r.table[k][3]),
                                   Drawdown  |-> OptionalCellValue(r.table[k][4])]],
                      object_cols |-> {c \in {2, 3, 4} : IsObjectColumn(r.table, c)}]]

load_csv_data_NoCatch(file_path, ls) ==
    [status |-> load_data(ls).status, exc |-> load_data(ls).exc,
     df |-> load_data(ls).df, out |-> << >>]

\* load_csv_data: any exception of the try block is caught, reported with
\* the file's path and turned into None.
load_csv_data(file_path, ls) ==
    LET r == load_data(ls)
    IN  IF r.status = "raised"
        THEN [status |-> "none", exc |-> r.exc, df |-> NoDF,
              out |-> <<[msg |-> "Error loading", file |-> file_path]>>]
        ELSE [status |-> "df", exc |-> "", df |-> r.df, out |-> << >>]

-----------------------------------------------------------------------------
(* The Calculator *)

\* Series.max() of a non-empty numeric series, scanning from the left
RECURSIVE SeriesMax(_, _)
SeriesMax(s, n) ==
    IF n = 1 THEN s[1]
    ELSE LET m == SeriesMax(s, n - 1) IN IF s[n] > m THEN s[n] ELSE m

\* A minimum accumulated from 0 rather than from the first value.
RECURSIVE SeriesMinFromZero(_, _)
SeriesMinFromZero(s, n) ==
    IF n = 0 THEN 0
    ELSE LET m == SeriesMinFromZero(s, n - 1) IN IF s[n] < m THEN s[n] ELSE m

RECURSIVE SeriesMin(_, _)
SeriesMin(s, n) ==
    IF n = 1 THEN s[1]
    ELSE LET m == SeriesMin(s, n - 1) IN IF s[n] < m THEN s[n] ELSE m

\* A scan that keeps the later of two equal values.
RECURSIVE ArgMaxLast(_, _)
ArgMaxLast(s, n) ==
    IF n = 1 THEN 1
    ELSE LET j == ArgMaxLast(s, n - 1) IN IF s[n] >= s[j] THEN n ELSE j

\* numpy argmax: the position of the first occurrence of the maximum
RECURSIVE ArgMax(_, _)
ArgMax(s, n) ==
    IF n = 1 THEN 1
    ELSE LET j == ArgMax(s, n - 1) IN IF s[n] > s[j] THEN n ELSE j

idxmax_last(s) == ArgMaxLast(s, Len(s)) - 1

\* Series.idxmax() under the RangeIndex 0..n-1 that read_csv gives: a label
idxmax(s) == ArgMax(s, Len(s)) - 1

\* df.loc[label, column] under that RangeIndex
loc(rows, label) == rows[label + 1]

Column(rows, name) == [k \in 1..Len(rows) |-> rows[k][name]]

\* The rows in ascending order of their timestamps (a stable insertion sort)
RECURSIVE InsertByTimestamp(_, _)
InsertByTimestamp(row, sortedRows) ==
    IF Len(sortedRows) = 0 THEN <<row>>
    ELSE IF row.Timestamp.instant < sortedRows[1].Timestamp.instant
    THEN <<row>> \o sortedRows
    ELSE <<sortedRows[1]>> \o InsertByTimestamp(row, Tail(sortedRows))

RECURSIVE SortByTimestamp(_, _)
SortByTimestamp(rows, n) ==
    IF n = 0 THEN << >>
    ELSE InsertByTimestamp(rows[n], SortByTimestamp(rows, n - 1))

\* A frame that is put in timestamp order before the column is derived.
WithFloatingLossSorted(d) ==
    LET rs == SortByTimestamp(d.rows, Len(d.rows))
    IN  [rows |-> [k \in 1..Len(rs) |->
                     [Timestamp     |-> rs[k].Timestamp,
                      Equity        |-> rs[k].Equity,
                      Balance       |-> rs[k].Balance,
                      Drawdown      |-> rs[k].Drawdown,
                      Floating_Loss |-> rs[k].Balance - rs[k].Equity]],
         object_cols |-> d.object_cols]

\* df['Floating_Loss'] = df['Balance'] - df['Equity']: the frame with the new
\* column (the caller's frame is modified in place)
WithFloatingLoss(d) ==
    [rows |-> [k \in 1..Len(d.rows) |->
                 [Timestamp     |-> d.rows[k].Timestamp,
                  Equity        |-> d.rows[k].Equity,
                  Balance       |-> d.rows[k].Balance,
                  Drawdown      |-> d.rows[k].Drawdown,
                  Floating_Loss |-> d.rows[k].Balance - d.rows[k].Equity]],
     object_cols |-> d.object_cols]

NoStats ==
    [max_floating_negative_balance |-> 0,
     max_floating_timestamp |-> [instant |-> 0, utcoffset |-> 0],
     min_equity |-> 0, max_balance |-> 0, daily_gain |-> 0,
     initial_balance |-> 0, final_balance |-> 0, data_points |-> 0]

\* plot_combined_equity_analysis has derived nothing yet
NoAnalysis ==
    [min_equity |-> 0, max_balance |-> 0, gain |-> 0, max_floating_balance |-> 0,
     max_floating_date |-> [instant |-> 0, utcoffset |-> 0]]

MaxFloatingLossNotNegated(fl) == SeriesMax(fl, Len(fl))

\* lines 49-52: the maximum floating loss, made negative
MaxFloatingNegativeBalance(fl) == SeriesMax(fl, Len(fl)) * (-1)

InitialBalanceByMin(balance) == SeriesMin(balance, Len(balance))

\* line 61: df['Balance'].iloc[0]
InitialBalance(balance) == balance[1]

\* lines 49-74 on a non-empty numeric frame that has its Floating_Loss column
StatisticsOf(d2) ==
    LET fl == Column(d2.rows, "Floating_Loss")
        eq == Column(d2.rows, "Equity")
        bal == Column(d2.rows, "Balance")
    IN  [max_floating_negative_balance |-> MaxFloatingNegativeBalance(fl),
         max_floating_timestamp |-> loc(d2.rows, idxmax(fl)).Timestamp,
         min_equity |-> SeriesMin(eq, Len(eq)),
         max_balance |-> SeriesMax(bal, Len(bal)),
         daily_gain |-> bal[Len(bal)] - InitialBalance(bal),
         initial_balance |-> InitialBalance(bal),
         final_balance |-> bal[Len(bal)],
         data_points |-> Len(d2.rows)]

\* A Calculator that answers an empty frame with a record of zeros.
calculate_degenerate_on_empty(d) ==
    IF d.object_cols \cap {2, 3} # {}
    THEN [status |-> "raised", exc |-> "TypeError", stats |-> NoStats, df |-> d]
    ELSE IF Len(d.rows) = 0
    THEN [status |-> "ok", exc |-> "", stats |-> NoStats, df |-> WithFloatingLoss(d)]
    ELSE [status |-> "ok", exc |-> "", stats |-> StatisticsOf(WithFloatingLoss(d)),
          df |-> WithFloatingLoss(d)]

\* calculate_max_floating_negative_balance: the statistics and the frame as
\* the call leaves it, or the exception that leaves the call.  Subtracting
\* with a column of strings is a TypeError (line 46); on an empty frame
\* max() is NaN and idxmax() raises ValueError (line 55).
calculate_max_floating_negative_balance(d) ==
    IF d.object_cols \cap {2, 3} # {}
    THEN [status |-> "raised", exc |-> "TypeError", stats |-> NoStats, df |-> d]
    ELSE IF Len(d.rows) = 0
    THEN [status |-> "raised", exc |-> "ValueError", stats |-> NoStats, df |-> WithFloatingLoss(d)]
    ELSE [status |-> "ok", exc |-> "", stats |-> StatisticsOf(WithFloatingLoss(d)),
          df |-> WithFloatingLoss(d)]

-----------------------------------------------------------------------------
(* The single-file analysis: plot_combined_equity_analysis, equityAnalizer.py *)

\* lines 45 and 175: the frame with the two derived columns
WithDerivedColumns(d) ==
    [rows |-> [k \in 1..Len(d.rows) |->
                 [Timestamp       |-> d.rows[k].Timestamp,
                  Equity          |-> d.rows[k].Equity,
                  Balance         |-> d.rows[k].Balance,
                  Drawdown        |-> d.rows[k].Drawdown,
                  Floating_Loss   |-> d.rows[k].Balance - d.rows[k].Equity,
                  Dollar_Drawdown |-> d.rows[k].Balance - d.rows[k].Equity]],
     object_cols |-> d.object_cols]

PlotGainByExtremes(balance) == SeriesMax(balance, Len(balance)) - SeriesMin(balance, Len(balance))

\* lines 39-41: gain = final balance - initial balance
PlotGain(balance) == balance[Len(balance)] - balance[1]

\* lines 32-48: the values derived for the charts, and the frame as the call
\* leaves it; idxmin of an empty column raises ValueError (line 35), a
\* column of strings TypeError
plot_combined_equity_analysis(d) ==
    IF d.object_cols \cap {2, 3} # {}
    THEN [status |-> "raised", exc |-> "TypeError", analysis |-> NoAnalysis, df |-> d]
    ELSE IF Len(d.rows) = 0
    THEN [status |-> "raised", exc |-> "ValueError", analysis |-> NoAnalysis, df |-> d]
    ELSE LET d2 == WithDerivedColumns(d)
             fl == Column(d2.rows, "Floating_Loss")
             eq == Column(d2.rows, "Equity")
             bal == Column(d2.rows, "Balance")
         IN  [status |-> "ok", exc |-> "", df |-> d2,
              analysis |->
                [min_equity |-> SeriesMin(eq, Len(eq)),
                 max_balance |-> SeriesMax(bal, Len(bal)),
                 gain |-> PlotGain(bal),
                 max_floating_balance |-> SeriesMax(fl, Len(fl)) * (-1),
                 max_floating_date |-> loc(d2.rows, idxmax(fl)).Timestamp]]

-----------------------------------------------------------------------------
(* File names *)

\* A file name is [stem, ymd]: stem stands for the characters before the
\* date, ymd is << >> when the name holds no dddd-dd-dd substring and
\* <<y, m, d>>, the digits of the first one, otherwise.  The characters of a
\* name are <<stem>> \o ymd: names compare as strings do, character by
\* character, a proper prefix first.
NameChars(name) == <<name.stem>> \o name.ymd

RECURSIVE LexLess(_, _)
LexLess(a, b) ==
    IF Len(a) = 0 THEN Len(b) > 0
    ELSE IF Len(b) = 0 THEN FALSE
    ELSE IF a[1] # b[1] THEN a[1] < b[1]
    ELSE LexLess(Tail(a), Tail(b))

\* The names in descending order, one of the orders glob may give.
RECURSIVE glob_order(_)
glob_order(S) ==
    IF S = {} THEN << >>
    ELSE LET greatest == CHOOSE x \in S :
                           \A z \in S \ {x} : LexLess(NameChars(z), NameChars(x))
         IN  <<greatest>> \o glob_order(S \ {greatest})

\* sorted(csv_files): ascending order of the names; glob's own order is
\* arbitrary and does not show in the result
RECURSIVE sorted(_)
sorted(S) ==
    IF S = {} THEN << >>
    ELSE LET least == CHOOSE x \in S :
                        \A z \in S \ {x} : LexLess(NameChars(x), NameChars(z))
         IN  <<least>> \o sorted(S \ {least})

\* re.search(r'(\d{4}-\d{2}-\d{2})', filename) finds a match
DatePatternMatches(name) == name.ymd # << >>

\* datetime.strptime(text, '%Y-%m-%d') accepts the matched text
StrptimeAccepts(ymd) ==
    /\ ymd[1] >= 1
    /\ ymd[2] \in 1..12
    /\ ymd[3] >= 1 /\ ymd[3] <= DaysInMonth(ymd[1], ymd[2])

\* extract_date_from_filename: None without a match, the date of the match,
\* or the ValueError of strptime when the match is no calendar date
extract_date_from_filename(name) ==
    IF ~DatePatternMatches(name) THEN [status |-> "none", date |-> << >>]
    ELSE IF StrptimeAccepts(name.ymd) THEN [status |-> "date", date |-> name.ymd]
    ELSE [status |-> "raised", date |-> << >>]

-----------------------------------------------------------------------------
(* Inputs *)

TS(mo, d, h) == [y |-> 2024, mo |-> mo, d |-> d, h |-> h]

Num(v) == [num |-> TRUE, v |-> v]

Text == [num |-> FALSE, v |-> 0]

\* A line of nf fields: timestamp;equity;balance[;drawdown[;extra]]
Line(ts, eq, bal, nf) == SubSeq(<<ts, eq, bal, Num(0), Num(0)>>, 1, nf)

\* The three samples of the round-trip example, as a log file
ExampleFile ==
    <<Line(TS(7, 1, 14), Num(1000), Num(1000), 4),
      Line(TS(7, 1, 15), Num(950), Num(1000), 4),
      Line(TS(7, 1, 16), Num(1000), Num(1050), 4)>>

\* The files of the batch runs: no rows; the example; a line one field short;
\* a line one field long; a timestamp that is no time; an equity that is no
\* number.
BatchContents ==
    { << >>,
      ExampleFile,
      <<Line(TS(1, 2, 14), Num(1000), Num(1000), 4), Line(TS(1, 2, 15), Num(950), Num(1000), 3)>>,
      <<Line(TS(1, 2, 14), Num(1000), Num(1000), 4), Line(TS(1, 2, 15), Num(950), Num(1000), 5)>>,
      <<Line(TS(1, 2, 25), Num(1000), Num(1000), 4)>>,
      <<Line(TS(1, 2, 14), Text, Num(1000), 4)>> }

\* File names: two stems, each without a date, with a date (the later
\* date under the stem that sorts first), or with digits that match the
\* pattern and are no calendar date.
Names ==
    { [stem |-> 1, ymd |-> << >>], [stem |-> 1, ymd |-> <<2024, 1, 3>>],
      [stem |-> 1, ymd |-> <<2024, 13, 45>>],
      [stem |-> 2, ymd |-> << >>], [stem |-> 2, ymd |-> <<2024, 1, 2>>],
      [stem |-> 2, ymd |-> <<2024, 13, 45>>] }

NoFile == [stem |-> 0, ymd |-> << >>]

\* Timestamp texts of single-file runs: winter, summer, the hours around the
\* two transitions of 2024, the first hour of the year, and two texts that
\* are no time.
TsTexts ==
    { TS(1, 15, 12), TS(7, 1, 2), TS(3, 10, 6), TS(3, 10, 7), TS(11, 3, 5), TS(11, 3, 6),
      TS(1, 1, 0), TS(13, 1, 0), TS(2, 30, 12) }

LineSet == { Line(ts, eq, Num(1000), nf) : ts \in TsTexts, eq \in {Num(1000), Text}, nf \in 3..5 }

SeqsUpTo(S, n) == UNION { [1..k -> S] : k \in 0..n }

\* Samples of the Calculator runs
SampleSet ==
    { [Timestamp |-> ConvertTimestamp(TS(7, 1, h)), Equity |-> e, Balance |-> b, Drawdown |-> <<0>>] :
        h \in 14..16, e \in {950, 1000, 1050}, b \in {1000, 1050} }

-----------------------------------------------------------------------------
(* State *)

\* The value of the variable df: None, or a frame
NoneDF == [none |-> TRUE, rows |-> << >>, object_cols |-> {}]

Frame(d) == [none |-> FALSE, rows |-> d.rows, object_cols |-> d.object_cols]

LoadedValue(r) == IF r.status = "none" THEN NoneDF ELSE Frame(r.df)

\* The variables of process_all_csv_files before it is called
BatchIdle ==
    /\ csv_files = << >>
    /\ i = 0
    /\ daily_results = << >>
    /\ printed = << >>
    /\ calls = << >>
    /\ raised = << >>
    /\ stats = NoStats
    /\ ret = "unset"
    /\ display_results = << >>
    /\ analysis = NoAnalysis

-----------------------------------------------------------------------------
(* process_all_csv_files *)

Init ==
    /\ \E S \in SUBSET Names :
          /\ Cardinality(S) <= MaxFiles
          /\ dir \in [S -> BatchContents]
    /\ BatchIdle
    /\ lines = << >>
    /\ df = NoneDF
    /\ pc = "start"

Say(msg, file) == [msg |-> msg, file |-> file]

\* lines 80-85: glob finds nothing
NoCsvFiles ==
    /\ pc = "start"
    /\ DOMAIN dir = {}
    /\ printed' = Append(printed, Say("No CSV files found", NoFile))
    /\ ret' = "None"
    /\ pc' = "done"
    /\ UNCHANGED <<display_results, analysis, dir, csv_files, i, daily_results, calls, raised, lines, df, stats>>

\* lines 80-91: glob finds files; the loop starts over their sorted names
EnterLoop ==
    /\ pc = "start"
    /\ DOMAIN dir # {}
    /\ printed' = Append(printed, Say("Found CSV files to process", NoFile))
    /\ daily_results' = << >>
    /\ csv_files' = sorted(DOMAIN dir)
    /\ i' = 1
    /\ pc' = "loop"
    /\ UNCHANGED <<display_results, analysis, dir, calls, raised, lines, df, stats, ret>>

InLoop == pc = "loop" /\ i <= Len(csv_files)

\* A test that lets None through and stops only the empty frame.
NoValidData_EmptyOnly(r) == r.status = "df" /\ Len(r.df.rows) = 0

\* line 102: df is None or df.empty, of what the Loader returned
NoValidData(r) == r.status = "none" \/ (r.status = "df" /\ Len(r.df.rows) = 0)

\* lines 93-97: no date in the name
SkipNoDate ==
    /\ InLoop
    /\ extract_date_from_filename(csv_files[i]).status = "none"
    /\ printed' = Append(printed, Say("Could not extract date from filename", csv_files[i]))
    /\ i' = i + 1
    /\ UNCHANGED <<display_results, analysis, dir, csv_files, daily_results, calls, pc, raised, lines, df, stats, ret>>

\* line 93: strptime raises; nothing in process_all_csv_files catches it
DateRaises ==
    /\ InLoop
    /\ extract_date_from_filename(csv_files[i]).status = "raised"
    /\ raised' = <<"ValueError", "extract_date_from_filename">>
    /\ pc' = "raised"
    /\ UNCHANGED <<display_results, analysis, dir, csv_files, i, daily_results, printed, calls, lines, df, stats, ret>>

\* lines 99-104: the Loader returns None (or an empty frame) and the file is
\* skipped; an exception that left the Loader would leave the loop too
SkipNoData ==
    /\ InLoop
    /\ extract_date_from_filename(csv_files[i]).status = "date"
    /\ LET r == load_csv_data(csv_files[i], dir[csv_files[i]])
       IN  /\ r.status = "raised" \/ NoValidData(r)
           /\ IF r.status = "raised"
              THEN /\ raised' = <<r.exc, "load_csv_data">>
                   /\ printed' = Append(printed, Say("Processing", csv_files[i]))
                   /\ pc' = "raised"
                   /\ UNCHANGED <<i, df>>
              ELSE /\ df' = LoadedValue(r)
                   /\ printed' = printed \o <<Say("Processing", csv_files[i])>> \o r.out
                                    \o <<Say("Skipping - no valid data", csv_files[i])>>
                   /\ i' = i + 1
                   /\ UNCHANGED <<pc, raised>>
    /\ calls' = Append(calls, [op |-> "load_csv_data", file |-> csv_files[i]])
    /\ UNCHANGED <<display_results, analysis, dir, csv_files, daily_results, lines, stats, ret>>

\* lines 99-114: the file loads, the Calculator returns, the record is kept
ProcessFile ==
    /\ InLoop
    /\ extract_date_from_filename(csv_files[i]).status = "date"
    /\ LET r == load_csv_data(csv_files[i], dir[csv_files[i]])
           c == calculate_max_floating_negative_balance(r.df)
           st == [max_floating_negative_balance |-> c.stats.max_floating_negative_balance,
                  max_floating_timestamp |-> c.stats.max_floating_timestamp,
                  min_equity |-> c.stats.min_equity,
                  max_balance |-> c.stats.max_balance,
                  daily_gain |-> c.stats.daily_gain,
                  initial_balance |-> c.stats.initial_balance,
                  final_balance |-> c.stats.final_balance,
                  data_points |-> c.stats.data_points,
                  date |-> extract_date_from_filename(csv_files[i]).date,
                  filename |-> csv_files[i]]
       IN  /\ r.status # "raised" /\ ~NoValidData(r)
           /\ c.status = "ok"
           /\ df' = Frame(c.df)
           /\ stats' = st
           /\ daily_results' = Append(daily_results, st)
           /\ printed' = printed \o <<Say("Processing", csv_files[i])>> \o r.out
                            \o <<Say("Max floating negative balance", csv_files[i]),
                                 Say("Data points", csv_files[i])>>
    /\ calls' = calls \o <<[op |-> "load_csv_data", file |-> csv_files[i]],
                           [op |-> "calculate", file |-> csv_files[i]]>>
    /\ i' = i + 1
    /\ UNCHANGED <<display_results, analysis, dir, csv_files, pc, raised, lines, ret>>

\* line 106: an exception leaves the Calculator; nothing catches it
CalculatorRaises ==
    /\ InLoop
    /\ extract_date_from_filename(csv_files[i]).status = "date"
    /\ LET r == load_csv_data(csv_files[i], dir[csv_files[i]])
           c == calculate_max_floating_negative_balance(r.df)
       IN  /\ r.status # "raised" /\ ~NoValidData(r)
           /\ c.status = "raised"
           /\ df' = Frame(c.df)
           /\ raised' = <<c.exc, "calculate_max_floating_negative_balance">>
           /\ printed' = printed \o <<Say("Processing", csv_files[i])>> \o r.out
    /\ calls' = calls \o <<[op |-> "load_csv_data", file |-> csv_files[i]],
                           [op |-> "calculate", file |-> csv_files[i]]>>
    /\ pc' = "raised"
    /\ UNCHANGED <<display_results, analysis, dir, csv_files, i, daily_results, lines, stats, ret>>

\* line 116: the loop is over
ReturnResults ==
    /\ pc = "loop"
    /\ i > Len(csv_files)
    /\ ret' = "daily_results"
    /\ pc' = "done"
    /\ UNCHANGED <<display_results, analysis, dir, csv_files, i, daily_results, printed, calls, raised, lines, df, stats>>

\* sorted(daily_results, key=lambda x: x['date']): a new list, in ascending
\* order of the dates, records of one date in the order they had
RECURSIVE InsertByDate(_, _)
InsertByDate(rec, sortedRecs) ==
    IF Len(sortedRecs) = 0 THEN <<rec>>
    ELSE IF LexLess(rec.date, sortedRecs[1].date) THEN <<rec>> \o sortedRecs
    ELSE <<sortedRecs[1]>> \o InsertByDate(rec, Tail(sortedRecs))

RECURSIVE sorted_by_date(_, _)
sorted_by_date(recs, n) ==
    IF n = 0 THEN << >>
    ELSE InsertByDate(recs[n], sorted_by_date(recs, n - 1))

\* main, lines 315-327, and plot_daily_max_floating_balances, lines 121-126:
\* with results to show, the chart is drawn from a list sorted by date that
\* the function binds to its own name
PlotDaily ==
    /\ pc = "done"
    /\ ret = "daily_results"
    /\ Len(daily_results) > 0
    /\ display_results' = sorted_by_date(daily_results, Len(daily_results))
    /\ pc' = "charted"
    /\ UNCHANGED <<analysis, dir, csv_files, i, daily_results, printed, calls, raised, lines,
                   df, stats, ret>>

Next ==
    \/ PlotDaily
    \/ NoCsvFiles
    \/ EnterLoop
    \/ SkipNoDate
    \/ DateRaises
    \/ SkipNoData
    \/ ProcessFile
    \/ CalculatorRaises
    \/ ReturnResults

Spec == Init /\ [][Next]_vars

-----------------------------------------------------------------------------
(* The Loader on one file: load_csv_data, and load_data of equityAnalizer.py *)

SingleFile == [stem |-> 1, ymd |-> <<2024, 1, 2>>]

InitLoad ==
    /\ BatchIdle
    /\ dir = << >>
    /\ df = NoneDF
    /\ lines \in SeqsUpTo(LineSet, MaxLines)
    /\ pc = "load"

\* dailyEquityAnalyzer.load_csv_data(file_path)
LoadCsvData ==
    /\ pc = "load"
    /\ LET r == load_csv_data(SingleFile, lines)
       IN  /\ df' = LoadedValue(r)
           /\ printed' = printed \o r.out
           /\ IF r.status = "raised"
              THEN raised' = <<r.exc, "load_csv_data">> /\ pc' = "raised"
              ELSE raised' = raised /\ pc' = "loaded_csv"
    /\ calls' = Append(calls, [op |-> "load_csv_data", file |-> SingleFile])
    /\ UNCHANGED <<display_results, analysis, dir, csv_files, i, daily_results, lines, stats, ret>>

\* equityAnalizer.load_data(file_path): nothing is caught
LoadData ==
    /\ pc = "load"
    /\ LET r == load_data(lines)
       IN  IF r.status = "raised"
           THEN /\ raised' = <<r.exc, "load_data">>
                /\ pc' = "raised"
                /\ df' = df
           ELSE /\ df' = Frame(r.df)
                /\ pc' = "loaded_data"
                /\ raised' = raised
    /\ calls' = Append(calls, [op |-> "load_data", file |-> SingleFile])
    /\ UNCHANGED <<display_results, analysis, dir, csv_files, i, daily_results, printed, lines, stats, ret>>

NextLoad ==
    \/ LoadCsvData
    \/ LoadData

SpecLoad == InitLoad /\ [][NextLoad]_vars

-----------------------------------------------------------------------------
(* The Calculator on one sequence of samples *)

InitCalc ==
    /\ BatchIdle
    /\ dir = << >>
    /\ lines = << >>
    /\ \E rows \in SeqsUpTo(SampleSet, MaxSamples) :
          df = [none |-> FALSE, rows |-> rows, object_cols |-> {}]
    /\ pc = "calc"

\* calculate_max_floating_negative_balance(df)
Calculate ==
    /\ pc = "calc"
    /\ LET c == calculate_max_floating_negative_balance(df)
       IN  /\ df' = Frame(c.df)
           /\ IF c.status = "raised"
              THEN /\ raised' = <<c.exc, "calculate_max_floating_negative_balance">>
                   /\ pc' = "raised"
                   /\ stats' = stats
              ELSE /\ stats' = c.stats
                   /\ pc' = "calculated"
                   /\ raised' = raised
    /\ calls' = Append(calls, [op |-> "calculate", file |-> NoFile])
    /\ UNCHANGED <<display_results, analysis, dir, csv_files, i, daily_results, printed, lines, ret>>

\* plot_combined_equity_analysis(df), on the frame as it is: fresh, or after
\* the Calculator has been at it
PlotCombined ==
    /\ pc \in {"calc", "calculated"}
    /\ LET a == plot_combined_equity_analysis(df)
       IN  /\ df' = Frame(a.df)
           /\ analysis' = a.analysis
           /\ IF a.status = "raised"
              THEN /\ raised' = <<a.exc, "plot_combined_equity_analysis">>
                   /\ pc' = "raised"
              ELSE /\ pc' = "analysed"
                   /\ raised' = raised
    /\ calls' = Append(calls, [op |-> "plot_combined", file |-> NoFile])
    /\ UNCHANGED <<display_results, dir, csv_files, i, daily_results, printed, lines, stats, ret>>

NextCalc ==
    \/ Calculate
    \/ PlotCombined

SpecCalc == InitCalc /\ [][NextCalc]_vars

-----------------------------------------------------------------------------
(* Properties of the batch run *)

Terminated == pc \in {"done", "raised"}

\* The name holds no date: no dddd-dd-dd substring, or one that is no date
NoDateInName(name) == ~DatePatternMatches(name) \/ ~StrptimeAccepts(name.ymd)

WrongFieldCount(ls) == \E k \in 1..Len(ls) : Len(ls[k]) # 4

UnparseableTimestamp(ls) == \E k \in 1..Len(ls) : ~ParsesAsTimestamp(ls[k][1])

NonNumeric(ls) == \E k \in 1..Len(ls) : ~ls[k][2].num \/ ~ls[k][3].num

\* A file that is malformed by itself
Malformed(name) ==
    \/ NoDateInName(name)
    \/ Len(dir[name]) = 0
    \/ WrongFieldCount(dir[name])
    \/ UnparseableTimestamp(dir[name])
    \/ NonNumeric(dir[name])

Diagnostics == {"Could not extract date from filename", "Error loading", "Skipping - no valid data"}

Diagnosed(name) == \E k \in 1..Len(printed) : printed[k].file = name /\ printed[k].msg \in Diagnostics

HasRecord(name) == \E k \in 1..Len(daily_results) : daily_results[k].filename = name

WasLoaded(name) == \E k \in 1..Len(calls) : calls[k] = [op |-> "load_csv_data", file |-> name]

\* Every name of the directory either holds no date pattern or a real date
PlainNames == \A name \in DOMAIN dir : DatePatternMatches(name) => StrptimeAccepts(name.ymd)

\* C1: a batch of N files, M of them malformed (no date in the name, no
\* rows, a wrong field count, an unparseable timestamp, a non-numeric
\* equity or balance), returns exactly N - M records and prints a
\* diagnostic for each of the M.  Stated for the directories whose names
\* hold a real date or no date pattern at all.
C1_BatchYieldsNMinusM ==
    (Terminated /\ DOMAIN dir # {} /\ PlainNames) =>
        /\ pc = "done"
        /\ ret = "daily_results"
        /\ Len(daily_results) =
              Cardinality(DOMAIN dir) - Cardinality({name \in DOMAIN dir : Malformed(name)})
        /\ \A name \in DOMAIN dir : Malformed(name) => Diagnosed(name)

\* C2: the batch run always completes: no exception leaves
\* process_all_csv_files, and it returns only after visiting every file.
C2_BatchAlwaysCompletes ==
    /\ pc # "raised"
    /\ pc = "done" /\ ret = "daily_results" => i = Len(csv_files) + 1

\* C3: a file without a date in its name is skipped (no record, no call of
\* the Loader) and does not halt the batch: when the run has ended after
\* the loop reached such a file, every valid file that sorts after it has
\* its record in the collection.
C3_NoDateSkippedBatchGoesOn ==
    Terminated =>
        \A a \in 1..Len(csv_files) :
            (a < i /\ ~DatePatternMatches(csv_files[a])) =>
                /\ ~HasRecord(csv_files[a])
                /\ ~WasLoaded(csv_files[a])
                /\ \A b \in (a + 1)..Len(csv_files) :
                      ~Malformed(csv_files[b]) => HasRecord(csv_files[b])

\* C4: a file whose name matches the date pattern with digits that are no
\* calendar date is skipped with a diagnostic and the loop goes on: the run
\* never ends at such a file, and once the loop is past it the diagnostic
\* is there.
C4_BadDateSkipped ==
    \A k \in 1..Len(csv_files) :
        (DatePatternMatches(csv_files[k]) /\ ~StrptimeAccepts(csv_files[k].ymd)) =>
            /\ ~(pc = "raised" /\ i = k)
            /\ (k < i => Diagnosed(csv_files[k]) /\ ~HasRecord(csv_files[k]))

\* C5: when the loop reaches a file with a date and no rows, the Loader
\* returns None to it, no exception leaves the Loader, the file is skipped
\* with its diagnostic, nothing is added and the loop goes on to the next
\* file.
C5_ZeroRowsIsSoft ==
    [][ (InLoop /\ extract_date_from_filename(csv_files[i]).status = "date"
              /\ Len(dir[csv_files[i]]) = 0)
        => /\ df'.none
           /\ raised' = << >>
           /\ pc' = "loop"
           /\ i' = i + 1
           /\ daily_results' = daily_results
           /\ printed'[Len(printed')] = Say("Skipping - no valid data", csv_files[i])
           /\ calls' = Append(calls, [op |-> "load_csv_data", file |-> csv_files[i]]) ]_vars

\* The loop has just skipped a dated file without rows
C5_Witness ==
    /\ pc = "loop"
    /\ i > 1
    /\ extract_date_from_filename(csv_files[i - 1]).status = "date"
    /\ Len(dir[csv_files[i - 1]]) = 0
    /\ df.none
    /\ Diagnosed(csv_files[i - 1])
    /\ i <= Len(csv_files)

-----------------------------------------------------------------------------
(* Properties of the Loader *)

LoadEnded == pc \in {"loaded_csv", "loaded_data", "raised"}

\* C6: a file with a line of other than four fields or with an unparseable
\* timestamp fails to load as a whole: load_csv_data reports the error with
\* the file and returns None, load_data raises; no frame is returned.
C6_LoaderFailsWholeFile ==
    (LoadEnded /\ (WrongFieldCount(lines) \/ UnparseableTimestamp(lines))) =>
        /\ pc # "loaded_data"
        /\ pc = "loaded_csv" =>
              /\ df.none
              /\ \E k \in 1..Len(printed) : printed[k] = Say("Error loading", SingleFile)

\* The Eastern offset the zone's rules give a UTC hour of 2024, written out
\* from the calendar: daylight time from 10 March 07:00 UTC until
\* 3 November 06:00 UTC.
ExpectedOffset2024(ts) ==
    IF \/ ts.mo \in 4..10
       \/ ts.mo = 3 /\ (ts.d > 10 \/ (ts.d = 10 /\ ts.h >= 7))
       \/ ts.mo = 11 /\ (ts.d < 3 \/ (ts.d = 3 /\ ts.h < 6))
    THEN -4 ELSE -5

\* C10: every loaded timestamp denotes the instant its text denotes read
\* as UTC, and shows the wall clock shifted by the US Eastern offset of its
\* date: 4 hours earlier in July, 5 hours earlier in January (on the two
\* transition dates, the offset in force at that hour).
C10_UtcToEasternShift ==
    (pc \in {"loaded_csv", "loaded_data"} /\ ~df.none) =>
        \A k \in 1..Len(df.rows) :
            LET ts == lines[k][1]
                t  == df.rows[k].Timestamp
            IN  /\ t.instant = HoursFromCivil(ts)
                /\ WallHours(t) = HoursFromCivil(ts) + ExpectedOffset2024(ts)
                /\ ts.mo = 7 => WallHours(t) = HoursFromCivil(ts) - 4
                /\ ts.mo = 1 => WallHours(t) = HoursFromCivil(ts) - 5
                /\ ts = TS(7, 1, 2) => WallClock(t) = [y |-> 2024, mo |-> 6, d |-> 30, h |-> 22]
                /\ ts = TS(1, 1, 0) => WallClock(t) = [y |-> 2023, mo |-> 12, d |-> 31, h |-> 19]
                /\ ts = TS(3, 10, 7) => WallClock(t) = [y |-> 2024, mo |-> 3, d |-> 10, h |-> 3]

\* A file with a July and a January line has been loaded by load_csv_data
C10_Witness ==
    /\ pc = "loaded_csv"
    /\ ~df.none
    /\ Len(df.rows) = 2
    /\ lines[1][1] = TS(7, 1, 2)
    /\ lines[2][1] = TS(1, 15, 12)
    /\ df.rows[1].Timestamp.utcoffset = -4
    /\ df.rows[2].Timestamp.utcoffset = -5

-----------------------------------------------------------------------------
(* Properties of the Calculator *)

FloatingLoss(row) == row.Balance - row.Equity

\* v is the largest value f takes on the rows
IsMaxOver(v, rows, f(_)) ==
    /\ \A k \in 1..Len(rows) : f(rows[k]) <= v
    /\ \E k \in 1..Len(rows) : f(rows[k]) = v

NegEquityOf(row) == 0 - row.Equity

BalanceOf(row) == row.Balance

EquityBalance(rows) == [k \in 1..Len(rows) |-> <<rows[k].Equity, rows[k].Balance>>]

\* C7: on a non-empty sequence the Calculator returns, with the negated
\* maximum of balance - equity, the minimum equity, the maximum balance, the
\* first and last balance, their difference and the length; the samples
\* (1000,1000), (950,1000), (1000,1050) give -50 at the second sample, 950,
\* 1050, 1000, 1050, 50 and 3.
C7_CalculatorFields ==
    /\ (pc = "raised" /\ raised[2] = "calculate_max_floating_negative_balance")
          => Len(df.rows) = 0
    /\ pc = "calculated" =>
          /\ Len(df.rows) > 0
          /\ IsMaxOver(0 - stats.max_floating_negative_balance, df.rows, FloatingLoss)
          /\ IsMaxOver(0 - stats.min_equity, df.rows, NegEquityOf)
          /\ IsMaxOver(stats.max_balance, df.rows, BalanceOf)
          /\ stats.initial_balance = df.rows[1].Balance
          /\ stats.final_balance = df.rows[Len(df.rows)].Balance
          /\ stats.daily_gain = df.rows[Len(df.rows)].Balance - df.rows[1].Balance
          /\ stats.data_points = Len(df.rows)
          /\ EquityBalance(df.rows) = << <<1000, 1000>>, <<950, 1000>>, <<1000, 1050>> >> =>
                /\ stats.max_floating_negative_balance = -50
                /\ stats.max_floating_timestamp = df.rows[2].Timestamp
                /\ stats.min_equity = 950
                /\ stats.max_balance = 1050
                /\ stats.initial_balance = 1000
                /\ stats.final_balance = 1050
                /\ stats.daily_gain = 50
                /\ stats.data_points = 3

\* The Calculator has returned on the three samples of the example
C7_Witness ==
    /\ pc = "calculated"
    /\ EquityBalance(df.rows) = << <<1000, 1000>>, <<950, 1000>>, <<1000, 1050>> >>
    /\ df.rows[1].Timestamp # df.rows[2].Timestamp
    /\ stats.max_floating_negative_balance = -50
    /\ stats.daily_gain = 50

\* C8: the reported maximum floating loss is the negation of the largest
\* balance - equity, and it is at most 0 whenever some sample has
\* balance >= equity.
C8_FloatingLossSign ==
    pc = "calculated" =>
        /\ \E k \in 1..Len(df.rows) :
              /\ stats.max_floating_negative_balance = 0 - FloatingLoss(df.rows[k])
              /\ \A j \in 1..Len(df.rows) : FloatingLoss(df.rows[j]) <= FloatingLoss(df.rows[k])
        /\ (\E k \in 1..Len(df.rows) : df.rows[k].Balance >= df.rows[k].Equity)
              => stats.max_floating_negative_balance <= 0

\* The Calculator has returned a negative value on a sequence in which one
\* sample has balance above equity and another equity above balance
C8_Witness ==
    /\ pc = "calculated"
    /\ \E k \in 1..Len(df.rows) : df.rows[k].Balance > df.rows[k].Equity
    /\ \E k \in 1..Len(df.rows) : df.rows[k].Balance < df.rows[k].Equity
    /\ stats.max_floating_negative_balance < 0

\* C9: max_floating_timestamp is the timestamp of the first sample, in
\* sequence order, that attains the maximum of balance - equity.
C9_FirstMaximumWins ==
    pc = "calculated" =>
        \E k \in 1..Len(df.rows) :
            /\ \A j \in 1..Len(df.rows) : FloatingLoss(df.rows[j]) <= FloatingLoss(df.rows[k])
            /\ \A j \in 1..(k - 1) : FloatingLoss(df.rows[j]) < FloatingLoss(df.rows[k])
            /\ stats.max_floating_timestamp = df.rows[k].Timestamp

\* The Calculator has returned on a sequence in which two samples with
\* different timestamps attain the maximum, the first of them after a
\* smaller sample
C9_Witness ==
    /\ pc = "calculated"
    /\ Len(df.rows) = 3
    /\ FloatingLoss(df.rows[1]) < FloatingLoss(df.rows[2])
    /\ FloatingLoss(df.rows[2]) = FloatingLoss(df.rows[3])
    /\ df.rows[2].Timestamp # df.rows[3].Timestamp
    /\ stats.max_floating_timestamp = df.rows[2].Timestamp

\* The four parsed columns of the rows, without the derived ones
Samples(rows) ==
    [k \in 1..Len(rows) |->
        [Timestamp |-> rows[k].Timestamp, Equity |-> rows[k].Equity,
         Balance |-> rows[k].Balance, Drawdown |-> rows[k].Drawdown]]

TimestampsAscend(rows) ==
    \A k \in 1..(Len(rows) - 1) : rows[k].Timestamp.instant <= rows[k + 1].Timestamp.instant

\* C11: initial_balance and final_balance are the balances of the first and
\* last sample as supplied, whatever the order of the timestamps, and
\* neither the Calculator nor the single-file analysis reorders the samples.
C11_PositionalBalances ==
    [][ /\ (pc = "calc" /\ pc' = "calculated") =>
              /\ stats'.initial_balance = df.rows[1].Balance
              /\ stats'.final_balance = df.rows[Len(df.rows)].Balance
              /\ Samples(df'.rows) = Samples(df.rows)
        /\ (pc \in {"calc", "calculated"} /\ pc' = "analysed") =>
              /\ analysis'.gain = df.rows[Len(df.rows)].Balance - df.rows[1].Balance
              /\ Samples(df'.rows) = Samples(df.rows) ]_vars

\* The Calculator has returned on samples whose timestamps go backwards,
\* whose first balance is neither the smallest nor that of the earliest
\* sample, and it reports the first and the last balance
C11_Witness ==
    /\ pc = "calculated"
    /\ Len(df.rows) = 3
    /\ ~TimestampsAscend(df.rows)
    /\ df.rows[1].Timestamp.instant > df.rows[2].Timestamp.instant
    /\ df.rows[1].Balance = 1050
    /\ df.rows[2].Balance = 1000
    /\ df.rows[3].Balance = 1000
    /\ stats.initial_balance = 1050
    /\ stats.final_balance = 1000

\* C12: on a sequence of one sample the Calculator succeeds and returns
\* daily_gain = 0, the sample's balance as initial, final and maximum
\* balance, its equity as minimum equity, its timestamp and data_points = 1.
C12_SingleSample ==
    Len(df.rows) = 1 =>
        /\ ~(pc = "raised" /\ raised[2] = "calculate_max_floating_negative_balance")
        /\ pc = "calculated" =>
              /\ stats.daily_gain = 0
              /\ stats.initial_balance = df.rows[1].Balance
              /\ stats.final_balance = df.rows[1].Balance
              /\ stats.max_balance = df.rows[1].Balance
              /\ stats.min_equity = df.rows[1].Equity
              /\ stats.max_floating_timestamp = df.rows[1].Timestamp
              /\ stats.data_points = 1

\* The Calculator has returned on one sample whose equity and balance differ
C12_Witness ==
    /\ pc = "calculated"
    /\ Len(df.rows) = 1
    /\ df.rows[1].Equity = 950
    /\ df.rows[1].Balance = 1000
    /\ stats.daily_gain = 0
    /\ stats.min_equity = 950

-----------------------------------------------------------------------------
(* Order of the batch *)

NameLess(a, b) == LexLess(NameChars(a), NameChars(b))

\* The files the loop has called the Loader or the Calculator for, in order
FilesOf(op) == SelectSeq(calls, LAMBDA c : c.op = op)

\* C13: the loop runs over the file names in ascending lexicographic order
\* and the collection lists its records in that order, as a subsequence of
\* the sorted names the loop has reached, also when the dates run the other
\* way; the date-sorted list of the chart is another list and leaves the
\* collection as it was.
C13_NameOrder ==
    /\ pc # "start" /\ ret # "None" =>
          /\ Len(csv_files) = Cardinality(DOMAIN dir)
          /\ \A k \in 1..Len(csv_files) : csv_files[k] \in DOMAIN dir
          /\ \A k \in 1..(Len(csv_files) - 1) : NameLess(csv_files[k], csv_files[k + 1])
    /\ \A k \in 1..(Len(daily_results) - 1) :
          NameLess(daily_results[k].filename, daily_results[k + 1].filename)
    /\ \A k \in 1..Len(daily_results) :
          \E j \in 1..Len(csv_files) : j <= i /\ csv_files[j] = daily_results[k].filename
    /\ \A k \in 1..(Len(FilesOf("load_csv_data")) - 1) :
          NameLess(FilesOf("load_csv_data")[k].file, FilesOf("load_csv_data")[k + 1].file)
    /\ pc = "charted" =>
          /\ Len(display_results) = Len(daily_results)
          /\ \A k \in 1..Len(daily_results) :
                \E j \in 1..Len(display_results) : display_results[j] = daily_results[k]
          /\ \A k \in 1..(Len(display_results) - 1) :
                ~LexLess(display_results[k + 1].date, display_results[k].date)

\* The chart has been drawn from two records whose file names ascend while
\* their dates descend: the collection keeps the order of the names
C13_Witness ==
    /\ pc = "charted"
    /\ Len(daily_results) = 2
    /\ NameLess(daily_results[1].filename, daily_results[2].filename)
    /\ LexLess(daily_results[2].date, daily_results[1].date)
    /\ display_results = <<daily_results[2], daily_results[1]>>

\* What the Loader gives for a file of the directory
LoadOf(f) == load_csv_data(f, dir[f])

\* C14: in a run of process_all_csv_files every call of the Calculator comes
\* straight after the Loader call of the same file has returned, that load
\* gave a frame with at least one row (not None, not an empty frame), and no
\* file has more than one Calculator call.
C14_CalculatorGetsNonEmpty ==
    \A k \in 1..Len(calls) :
        calls[k].op = "calculate" =>
            /\ k > 1
            /\ calls[k - 1] = [op |-> "load_csv_data", file |-> calls[k].file]
            /\ calls[k].file \in DOMAIN dir
            /\ LoadOf(calls[k].file).status = "df"
            /\ Len(LoadOf(calls[k].file).df.rows) > 0
            /\ \A j \in 1..Len(calls) :
                  (calls[j].op = "calculate" /\ calls[j].file = calls[k].file) => j = k

\* The loop is over, one file loaded to None and was passed by without a
\* Calculator call, and another file went on to the Calculator
C14_Witness ==
    /\ pc = "done"
    /\ \E f, g \in DOMAIN dir :
          /\ LoadOf(f).status = "none"
          /\ \E k \in 1..Len(calls) : calls[k] = [op |-> "load_csv_data", file |-> f]
          /\ \A k \in 1..Len(calls) : ~(calls[k].op = "calculate" /\ calls[k].file = f)
          /\ \E k \in 1..Len(calls) : calls[k] = [op |-> "calculate", file |-> g]

-----------------------------------------------------------------------------
(* The Calculator on its own *)

\* C15: a direct call of the Calculator on a frame without rows ends with an
\* exception leaving the call (the ValueError of idxmax, line 55); it returns
\* no record, neither one of real values nor one of zeros or NaN.
C15_EmptyFailsHard ==
    [][ (pc = "calc" /\ Len(df.rows) = 0 /\ calls' = Append(calls, [op |-> "calculate", file |-> NoFile]))
            => /\ pc' = "raised"
               /\ raised' = <<"ValueError", "calculate_max_floating_negative_balance">>
               /\ stats' = NoStats
               /\ Len(df'.rows) = 0 ]_vars

\* The Calculator was called first thing on the empty frame and the call
\* ended with the exception
C15_Witness ==
    /\ pc = "raised"
    /\ calls = <<[op |-> "calculate", file |-> NoFile]>>
    /\ Len(df.rows) = 0
    /\ raised[2] = "calculate_max_floating_negative_balance"
    /\ stats = NoStats

-----------------------------------------------------------------------------
(* The two copies of the statistics *)

\* Every row keeps its four parsed columns and has the named derived columns,
\* each holding Balance - Equity
DerivesInto(before, after, names) ==
    /\ Samples(after) = Samples(before)
    /\ \A k \in 1..Len(after) :
          /\ {"Timestamp", "Equity", "Balance", "Drawdown"} \cup names \subseteq DOMAIN after[k]
          /\ "Drawdown" \notin names
          /\ \A n \in names : after[k][n] = after[k].Balance - after[k].Equity

\* C16: on every frame with at least one row the single-file analysis gives
\* the min_equity, max_balance, gain, max floating balance and max-floating
\* timestamp that the batch Calculator gives for the same samples (also the
\* ones the Calculator did give when it ran first), and both keep the parsed
\* Drawdown column and put Balance - Equity into columns of other names.
C16_CopiesAgree ==
    [][ /\ (Len(df.rows) > 0 /\ pc' = "analysed") =>
              LET c == calculate_max_floating_negative_balance(df)
                  agrees(st) ==
                      /\ analysis'.min_equity = st.min_equity
                      /\ analysis'.max_balance = st.max_balance
                      /\ analysis'.gain = st.daily_gain
                      /\ analysis'.gain = st.final_balance - st.initial_balance
                      /\ analysis'.max_floating_balance = st.max_floating_negative_balance
                      /\ analysis'.max_floating_date = st.max_floating_timestamp
              IN  /\ c.status = "ok"
                  /\ agrees(c.stats)
                  /\ pc = "calculated" => agrees(stats)
                  /\ DerivesInto(df.rows, df'.rows, {"Floating_Loss", "Dollar_Drawdown"})
        /\ (Len(df.rows) > 0 /\ pc' = "calculated") =>
              DerivesInto(df.rows, df'.rows, {"Floating_Loss"}) ]_vars

\* Both have run on three samples whose balance ends below where it began
\* and whose greatest floating loss comes twice
C16_Witness ==
    /\ pc = "analysed"
    /\ calls = <<[op |-> "calculate", file |-> NoFile], [op |-> "plot_combined", file |-> NoFile]>>
    /\ EquityBalance(df.rows) = << <<1000, 1050>>, <<950, 1000>>, <<1000, 1000>> >>
    /\ stats.daily_gain = -50
    /\ analysis.gain = -50
    /\ stats.max_floating_negative_balance = -50
    /\ analysis.max_floating_balance = -50
    /\ analysis.max_floating_date = df.rows[1].Timestamp
    /\ stats.max_floating_timestamp = df.rows[1].Timestamp
    /\ df.rows[2].Dollar_Drawdown = 50
    /\ df.rows[2].Drawdown = <<0>>

====
